---- MODULE Spec2Model ----
(***************************************************************************)
(* A model of gcp-costs: generate_cost_structure.py (sanitize_name,        *)
(* generate_structure, main) and the three collaborators it imports from   *)
(* fetch_gcp_costs.py (validate_config, fetch_daily_totals,                *)
(* fetch_daily_costs).                                                     *)
(*                                                                         *)
(* Representation.                                                         *)
(*  - A Python str is a sequence of one-character strings, so that         *)
(*    sanitize_name and the f-strings act on characters.  None and the     *)
(*    empty str are both the empty sequence: the code only ever tests      *)
(*    their truthiness (`not name`, `x or default`, `if service`).         *)
(*  - A usage date is a day number (ISO dates compare as strings the way   *)
(*    day numbers compare as integers); the absent date is NoDate.         *)
(*  - Money is an integer number of 1/10000 currency units (the queries    *)
(*    ROUND(..., 4)); arithmetic is exact decimal arithmetic, so the       *)
(*    representation error of binary floats is not modelled, and round()   *)
(*    is round-half-even on the decimal value.                             *)
(*  - A dict whose order the program reads (resources) is a sequence of    *)
(*    entries in insertion order; the other dicts are functions.           *)
(***************************************************************************)
EXTENDS Integers, Sequences, FiniteSets, TLC

VARIABLES
    pc,               \* position of the process
    env_ok,           \* all three GCP_BILLING_* settings are present
    today,            \* datetime.now(), as a day number
    queries,          \* BigQuery queries issued by this process
    fetched,          \* which of main's locals are bound: "totals", "rows"
    accurate_totals,  \* main's accurate_totals / generate_structure's argument
    rows,             \* main's rows / generate_structure's argument
    resources,        \* generate_structure's resources dict, as it ends
    summary,          \* the summary generate_structure returns
    fs,               \* the output tree costs/gcp
    run               \* how many times the process has been started

vars == <<pc, env_ok, today, queries, fetched, accurate_totals, rows,
          resources, summary, fs, run>>

----------------------------------------------------------------------------
(* Bounds of the model *)

MaxRows == 2
MaxMainRows == 2
MaxRuns == 2
MaxRes == 21

(* Program constants *)

Window == 30
TopN == 20
Cent == 100
Threshold == 100

----------------------------------------------------------------------------
(* Strings *)

None == <<>>
NoDate == 0

Unknown == <<"_","u","n","k","n","o","w","n","_">>
UnknownProject ==
    <<"_","u","n","k","n","o","w","n","_","p","r","o","j","e","c","t","_">>
Unallocated == <<"_","u","n","a","l","l","o","c","a","t","e","d","_">>
UnallocatedCategory == <<"U","n","a","l","l","o","c","a","t","e","d">>
USD == <<"U","S","D">>

ReplacedChars == {"/", "\\", ":", " "}

\* x or default
OrElse(x, default) == IF x = None THEN default ELSE x

sanitize_name(name) ==
    IF name = None THEN Unknown
    ELSE [i \in DOMAIN name |->
             IF name[i] \in ReplacedChars THEN "_" ELSE name[i]]

----------------------------------------------------------------------------
(* Arithmetic and dicts *)

Abs(x) == IF x < 0 THEN -x ELSE x

Min(a, b) == IF a < b THEN a ELSE b

\* round(x, 2): to the nearest cent, a tie to the even cent
Round2(x) ==
    LET q == x \div Cent
        r == x % Cent
    IN  IF 2 * r < Cent THEN q * Cent
        ELSE IF 2 * r > Cent THEN (q + 1) * Cent
        ELSE IF q % 2 = 0 THEN q * Cent ELSE (q + 1) * Cent

EmptyDict == <<>>

\* d.get(k, default)
Get(d, k, default) == IF k \in DOMAIN d THEN d[k] ELSE default

\* d[k] = v
Put(d, k, v) == [x \in DOMAIN d \cup {k} |-> IF x = k THEN v ELSE d[x]]

RECURSIVE SumSet(_, _)
\* the sum of d[k] over the keys k in S
SumSet(d, S) ==
    IF S = {} THEN 0
    ELSE LET k == CHOOSE x \in S : TRUE
         IN  d[k] + SumSet(d, S \ {k})

MaxOf(S) == CHOOSE x \in S : \A y \in S : y <= x
MinOf(S) == CHOOSE x \in S : \A y \in S : x <= y

----------------------------------------------------------------------------
(* generate_structure: the date range and the rolling cutoff *)

RowDates(rs) ==
    {rs[i].usage_date : i \in DOMAIN rs} \ {NoDate}

AllDates(rs, totals) ==
    IF DOMAIN totals # {} THEN RowDates(rs) \cup DOMAIN totals ELSE RowDates(rs)

DataStart(rs, totals, now) ==
    IF AllDates(rs, totals) # {} THEN MinOf(AllDates(rs, totals)) ELSE now

DataEnd(rs, totals, now) ==
    IF AllDates(rs, totals) # {} THEN MaxOf(AllDates(rs, totals)) ELSE now

\* the cutoff taken from the rows' own dates, the totals' dates forgotten
CutoffFromRows(rs, totals, now) == DataEnd(rs, EmptyDict, now) - Window

CutoffDate(rs, totals, now) == DataEnd(rs, totals, now) - Window

Currency(rs) ==
    LET currencies == {rs[i].currency : i \in DOMAIN rs}
    IN  IF Cardinality(currencies) = 1
        THEN CHOOSE c \in currencies : TRUE
        ELSE USD

----------------------------------------------------------------------------
(* generate_structure: folding the rows into the resources dict *)

ResourceNameOf(row) == OrElse(row.resource_name, Unknown)

ProjectIdOf(row) == OrElse(row.project_id, UnknownProject)

\* the key taken from the resource name alone
KeyWithoutProject(row) == sanitize_name(ResourceNameOf(row))

KeyOf(row) ==
    IF ResourceNameOf(row) = Unknown
    THEN sanitize_name(ProjectIdOf(row)) \o <<"_">>
             \o sanitize_name(ResourceNameOf(row))
    ELSE sanitize_name(ResourceNameOf(row))

HasKey(res, key) == \E i \in DOMAIN res : res[i].key = key

IndexOf(res, key) == CHOOSE i \in DOMAIN res : res[i].key = key

NewAggregate(key, row) ==
    [key |-> key,
     resource_name |->
         IF ResourceNameOf(row) # Unknown THEN ResourceNameOf(row)
         ELSE Unknown \o <<" ", "(">> \o ProjectIdOf(row) \o <<")">>,
     project_id |-> ProjectIdOf(row),
     project_name |-> row.project_name,
     categories |-> {},
     category_costs |-> EmptyDict,
     daily_costs |-> EmptyDict,
     total_cost |-> 0,
     rolling_30d_cost |-> 0]

InWindow(date, cutoff) == date # NoDate /\ date >= cutoff

FoldRow(res, row, cutoff) ==
    LET key == KeyOf(row)
        date == row.usage_date
        cost == row.net_cost
        service == row.service_name
        base == IF HasKey(res, key) THEN res
                ELSE Append(res, NewAggregate(key, row))
        i == IndexOf(base, key)
        a0 == base[i]
        a1 == IF service # None
              THEN [a0 EXCEPT
                       !.categories = @ \cup {service},
                       !.category_costs =
                           Put(@, service,
                               Get(@, service, 0)
                                 + IF InWindow(date, cutoff) THEN cost ELSE 0)]
              ELSE a0
        a2 == IF date # NoDate
              THEN [a1 EXCEPT
                       !.daily_costs = Put(@, date, Get(@, date, 0) + cost)]
              ELSE a1
        a3 == [a2 EXCEPT
                  !.total_cost = @ + cost,
                  !.rolling_30d_cost =
                      @ + IF InWindow(date, cutoff) THEN cost ELSE 0]
    IN  [base EXCEPT ![i] = a3]

RECURSIVE FoldRows(_, _, _, _)
\* the loop `for row in rows`, from row n on
FoldRows(res, rs, n, cutoff) ==
    IF n > Len(rs) THEN res
    ELSE FoldRows(FoldRow(res, rs[n], cutoff), rs, n + 1, cutoff)

Aggregate(rs, cutoff) == FoldRows(<<>>, rs, 1, cutoff)

----------------------------------------------------------------------------
(* generate_structure: the unallocated cost *)

RECURSIVE SumDaily(_, _, _)
\* the sum of daily_costs[date] over the first n entries of res
SumDaily(res, date, n) ==
    IF n = 0 THEN 0
    ELSE Get(res[n].daily_costs, date, 0) + SumDaily(res, date, n - 1)

\* detailed_by_day.get(date, 0)
DetailedByDay(res, date) == SumDaily(res, date, Len(res))

Diff(res, totals, date) == totals[date] - DetailedByDay(res, date)

Exceeds(diff) == Abs(diff) > Threshold

UnallocatedDates(res, totals) ==
    {date \in DOMAIN totals : Exceeds(Diff(res, totals, date))}

UnallocatedAggregate(res, totals, cutoff) ==
    LET dates == UnallocatedDates(res, totals)
        diffs == [date \in dates |-> Diff(res, totals, date)]
    IN  [key |-> Unallocated,
         resource_name |-> Unallocated,
         project_id |-> None,
         project_name |-> None,
         categories |-> {UnallocatedCategory},
         category_costs |-> EmptyDict,
         daily_costs |-> [date \in dates |-> Round2(diffs[date])],
         total_cost |-> SumSet(diffs, dates),
         rolling_30d_cost |->
             SumSet(diffs, {date \in dates : date >= cutoff})]

\* resources[key] = value
SetEntry(res, key, value) ==
    IF HasKey(res, key) THEN [res EXCEPT ![IndexOf(res, key)] = value]
    ELSE Append(res, value)

Reconcile(res, totals, cutoff) ==
    IF DOMAIN totals = {} THEN res
    ELSE IF UnallocatedDates(res, totals) = {} THEN res
    ELSE SetEntry(res, Unallocated, UnallocatedAggregate(res, totals, cutoff))

----------------------------------------------------------------------------
(* generate_structure: the output tree *)

NoTree ==
    [exists |-> FALSE,
     by_resource |-> EmptyDict,
     project_dirs |-> {},
     by_project |-> EmptyDict,
     service_dirs |-> {},
     by_service |-> EmptyDict,
     summary_doc |-> <<>>]

\* by_resource.mkdir(parents=True), by_project.mkdir, by_service.mkdir
Mkdirs(tree) == [tree EXCEPT !.exists = TRUE]

\* the old tree kept
KeepTree(tree) == tree

\* if COSTS_DIR.exists(): shutil.rmtree(COSTS_DIR)
CleanTree(tree) == IF tree.exists THEN NoTree ELSE tree

\* Path("../../by-resource") / safe_name
LinkTarget(safe_name) == <<"..", "..", "by-resource", safe_name>>

\* the by-resource directory a link of an index tree resolves to, if any
Resolves(tree, target) ==
    /\ target[1] = ".." /\ target[2] = ".." /\ target[3] = "by-resource"
    /\ target[4] \in DOMAIN tree.by_resource

\* link_path.exists(), which follows the link
LinkExists(tree, links, path) ==
    path \in DOMAIN links /\ Resolves(tree, links[path])

\* if not link_path.exists(): link_path.symlink_to(target)
\* (symlink_to raises on a dangling link already at link_path; none can be
\* there, the tree having just been recreated)
Symlink(tree, links, path, target) ==
    IF LinkExists(tree, links, path) THEN links ELSE Put(links, path, target)

RECURSIVE SymlinkAll(_, _, _, _)
\* the loop `for cat in data["categories"]`: one link per directory in dirs
SymlinkAll(tree, links, dirs, safe_name) ==
    IF dirs = {} THEN links
    ELSE LET dir == CHOOSE x \in dirs : TRUE
         IN  SymlinkAll(tree,
                        Symlink(tree, links, <<dir, safe_name>>,
                                LinkTarget(safe_name)),
                        dirs \ {dir}, safe_name)

CostData(data, currency, now, start, end) ==
    [provider |-> "gcp",
     resource_name |-> data.resource_name,
     resource_group |-> data.project_id,
     rolling_30d_cost |-> Round2(data.rolling_30d_cost),
     total_cost |-> Round2(data.total_cost),
     categories |-> data.categories,
     currency |-> currency,
     last_updated |-> now,
     data_range |-> [start |-> start, end |-> end],
     daily_costs |-> [date \in DOMAIN data.daily_costs |->
                         Round2(data.daily_costs[date])],
     provider_metadata |-> [project_id |-> data.project_id,
                            project_name |-> data.project_name]]

\* the project id used as a directory name as it is
RawProjectDir(data) == OrElse(data.project_id, Unknown)

\* the directory of the project index a resource is linked under
ProjectDir(data) == sanitize_name(data.project_id)

\* the directories of the service index a resource is linked under
ServiceDirs(data) == {sanitize_name(cat) : cat \in data.categories}

\* one iteration of `for safe_name, data in resources.items()`
RenderResource(tree, data, currency, now, start, end) ==
    LET safe_name == data.key
        t1 == [tree EXCEPT
                  !.by_resource =
                      Put(@, safe_name,
                          CostData(data, currency, now, start, end))]
        t2 == IF ProjectDir(data) # None
              THEN [t1 EXCEPT
                       !.project_dirs = @ \cup {ProjectDir(data)},
                       !.by_project =
                           Symlink(t1, @, <<ProjectDir(data), safe_name>>,
                                   LinkTarget(safe_name))]
              ELSE t1
    IN  [t2 EXCEPT
            !.service_dirs = @ \cup ServiceDirs(data),
            !.by_service = SymlinkAll(t2, @, ServiceDirs(data), safe_name)]

RECURSIVE RenderResources(_, _, _, _, _, _, _)
RenderResources(tree, res, n, currency, now, start, end) ==
    IF n > Len(res) THEN tree
    ELSE RenderResources(
             RenderResource(tree, res[n], currency, now, start, end),
             res, n + 1, currency, now, start, end)

ProjectsSeen(res) ==
    {res[i].project_id : i \in {j \in DOMAIN res : ProjectDir(res[j]) # None}}

ServicesSeen(res) ==
    UNION {{cat \in res[i].categories : sanitize_name(cat) # None} :
              i \in DOMAIN res}

----------------------------------------------------------------------------
(* generate_structure: the summary *)

RollingOf(data) == data.rolling_30d_cost
TotalOf(data) == data.total_cost

RECURSIVE SumRolling(_, _)
\* sum(r["rolling_30d_cost"] for r in resources.values())
SumRolling(res, n) ==
    IF n = 0 THEN 0 ELSE RollingOf(res[n]) + SumRolling(res, n - 1)

RECURSIVE SumTotal(_, _)
\* sum(r["total_cost"] for r in resources.values())
SumTotal(res, n) ==
    IF n = 0 THEN 0 ELSE TotalOf(res[n]) + SumTotal(res, n - 1)

\* the order of an ascending sort
BeforeAscending(a, b) == RollingOf(a) <= RollingOf(b)

\* sorted(..., reverse=True): a stays ahead of a later b unless b's key is larger
Before(a, b) == RollingOf(a) >= RollingOf(b)

InsertSorted(sorted, x) ==
    LET ahead == Cardinality({i \in DOMAIN sorted : Before(sorted[i], x)})
    IN  SubSeq(sorted, 1, ahead) \o <<x>>
            \o SubSeq(sorted, ahead + 1, Len(sorted))

RECURSIVE SortedByRolling(_, _)
\* sorted(resources.items(), key=rolling_30d_cost, reverse=True), which is stable
SortedByRolling(res, n) ==
    IF n = 0 THEN <<>>
    ELSE InsertSorted(SortedByRolling(res, n - 1), res[n])

\* [:20]
Top(sorted) == SubSeq(sorted, 1, Min(TopN, Len(sorted)))

TopResources(res) ==
    LET top == Top(SortedByRolling(res, Len(res)))
    IN  [i \in DOMAIN top |->
            [name |-> top[i].key,
             rolling_30d_cost |-> Round2(top[i].rolling_30d_cost)]]

DailyTotals(res) ==
    LET dates == UNION {DOMAIN res[i].daily_costs : i \in DOMAIN res}
    IN  [date \in dates |-> Round2(DetailedByDay(res, date))]

RECURSIVE SumCategory(_, _, _)
SumCategory(res, cat, n) ==
    IF n = 0 THEN 0
    ELSE Get(res[n].category_costs, cat, 0) + SumCategory(res, cat, n - 1)

ByCategory(res) ==
    LET cats == UNION {DOMAIN res[i].category_costs : i \in DOMAIN res}
    IN  [cat \in cats |-> Round2(SumCategory(res, cat, Len(res)))]

Summary(res, currency, now, start, end, cutoff) ==
    [provider |-> "gcp",
     source |-> "bigquery-export",
     currency |-> currency,
     date |-> now,
     rolling_30d_cost |-> Round2(SumRolling(res, Len(res))),
     total_all_time_cost |-> Round2(SumTotal(res, Len(res))),
     data_range |-> [start |-> start, end |-> end],
     rolling_30d_cutoff |-> cutoff,
     resource_count |-> Len(res),
     category_count |-> Cardinality(ServicesSeen(res)),
     project_count |-> Cardinality(ProjectsSeen(res)),
     top_20_resources |-> TopResources(res),
     daily_totals |-> DailyTotals(res),
     by_category |-> ByCategory(res)]

NoSummary == <<>>

----------------------------------------------------------------------------
(* generate_structure(rows, accurate_totals), called at day `now` on `tree` *)

FinalResources(rs, totals, now) ==
    Reconcile(Aggregate(rs, CutoffDate(rs, totals, now)), totals,
              CutoffDate(rs, totals, now))

generate_structure(rs, totals, now, tree) ==
    LET start == DataStart(rs, totals, now)
        end == DataEnd(rs, totals, now)
        cutoff == CutoffDate(rs, totals, now)
        currency == Currency(rs)
        res == FinalResources(rs, totals, now)
        doc == Summary(res, currency, now, start, end, cutoff)
        recreated == Mkdirs(CleanTree(tree))
        written == RenderResources(recreated, res, 1, currency, now,
                                   start, end)
    IN  [resources |-> res,
         summary |-> doc,
         fs |-> [written EXCEPT !.summary_doc = <<doc>>]]

----------------------------------------------------------------------------
(* Inputs *)

P1 == <<"p", "1">>
PSlash == <<"a", "/", "b">>
PColon == <<"a", ":", "b">>
VM == <<"v", "m">>
Compute == <<"C", "o", "m", "p", "u", "t", "e">>
ServiceSpace == <<"A", " ", "B">>
ServiceUnder == <<"A", "_", "B">>
ProjectName == <<"N">>
\* a resource whose name is the key of project P1's unknown resources
LikeUnknown == P1 \o <<"_">> \o Unknown

Today0 == Window + 20
OldDay == Today0 - 45
LastDay == Today0 - 10

Row(date, project, resource, service, cost) ==
    [usage_date |-> date,
     project_id |-> project,
     project_name |-> IF project = None THEN None ELSE ProjectName,
     service_name |-> service,
     resource_name |-> resource,
     net_cost |-> cost,
     currency |-> USD]

RowSet(dates, projects, resource_names, services, costs) ==
    {Row(d, p, r, s, c) :
        d \in dates, p \in projects, r \in resource_names, s \in services,
        c \in costs}

SeqsUpTo(S, n) == UNION {[1..k -> S] : k \in 0..n}

\* every dict from some of the dates to one of the amounts
TotalsOver(dates, amounts) ==
    UNION {[D -> amounts] : D \in SUBSET dates}

\* rows that vary in date, amount and resource (one of them named like the
\* synthetic aggregate)
GenRows ==
    RowSet({NoDate, OldDay, LastDay}, {P1}, {VM, Unallocated, None},
           {Compute}, {40, 160})

GenTotals == TotalsOver({OldDay, LastDay}, {130, 400})

\* rows that vary in project, resource and service
ProjRows ==
    RowSet({LastDay}, {None, P1, PSlash}, {VM, None},
           {None, ServiceSpace, ServiceUnder}, {150})

ProjTotals == TotalsOver({LastDay}, {150, 400})

\* rows that vary in the spelling of project and resource
KeyRows ==
    RowSet({LastDay}, {None, P1, PSlash, PColon},
           {None, Unknown, VM, LikeUnknown}, {Compute}, {150})

\* the name of the n-th of many resources
NthName(n) == [j \in 1..n |-> "r"]

\* n rows, one per resource, amounts cycling with a stride and a period
ManyRows(n, stride, period) ==
    [i \in 1..n |->
        Row(LastDay, P1, NthName(i), Compute, ((i * stride) % period) * 150)]

\* what fetch_daily_costs can return to main
MainRows ==
    {Row(LastDay, P1, VM, Compute, 150),
     Row(NoDate, P1, VM, ServiceSpace, 40),
     Row(OldDay, PSlash, Unknown, Compute, 40)}

\* what fetch_daily_totals can return to main
MainTotals == {EmptyDict} \cup {[d \in {LastDay} |-> a] : a \in {150, 400}}

\* a tree an earlier run left behind
StaleTree ==
    generate_structure(<<Row(OldDay, PColon, <<"o", "l", "d">>, Compute, 40)>>,
                       EmptyDict, Today0 - 1, NoTree).fs

----------------------------------------------------------------------------
(* generate_structure called directly *)

InitCall(inputs, totals, trees) ==
    /\ pc = "call"
    /\ env_ok = TRUE
    /\ today = Today0
    /\ queries = 0
    /\ fetched = {"totals", "rows"}
    /\ accurate_totals \in totals
    /\ rows \in inputs
    /\ resources = <<>>
    /\ summary = NoSummary
    /\ fs \in trees
    /\ run = 1

CallGenerateStructure ==
    /\ pc = "call"
    /\ LET out == generate_structure(rows, accurate_totals, today, fs)
       IN  /\ resources' = out.resources
           /\ summary' = out.summary
           /\ fs' = out.fs
    /\ pc' = "done"
    /\ UNCHANGED <<env_ok, today, queries, fetched, accurate_totals, rows, run>>

NextCall == CallGenerateStructure

InitGen == InitCall(SeqsUpTo(GenRows, MaxRows), GenTotals, {NoTree})
SpecGen == InitGen /\ [][NextCall]_vars

InitProj ==
    InitCall(SeqsUpTo(ProjRows, MaxRows), ProjTotals, {NoTree, StaleTree})
SpecProj == InitProj /\ [][NextCall]_vars

InitKey == InitCall(SeqsUpTo(KeyRows, MaxRows), {EmptyDict}, {NoTree})
SpecKey == InitKey /\ [][NextCall]_vars

InitTop ==
    InitCall({ManyRows(n, stride, period) :
                 n \in 0..MaxRes, stride \in 1..3, period \in 1..3},
             {EmptyDict, [d \in {LastDay} |-> 400]}, {NoTree})
SpecTop == InitTop /\ [][NextCall]_vars

----------------------------------------------------------------------------
(* main, run by a scheduler again and again *)

\* the test for no rows left out
NeverNoData(rs) == FALSE

\* if not rows
NoData(rs) == rs = <<>>

Init ==
    /\ pc = "start"
    /\ env_ok \in BOOLEAN
    /\ today = Today0
    /\ queries = 0
    /\ fetched = {}
    /\ accurate_totals = EmptyDict
    /\ rows = <<>>
    /\ resources = <<>>
    /\ summary = NoSummary
    /\ fs = NoTree
    /\ run = 1

\* validate_config(): raises ValueError when a setting is missing
ValidateConfig ==
    /\ pc = "start"
    /\ pc' = IF env_ok THEN "fetch_totals" ELSE "raised"
    /\ UNCHANGED <<env_ok, today, queries, fetched, accurate_totals, rows,
                   resources, summary, fs, run>>

\* accurate_totals = fetch_daily_totals(): the query fails or answers
FetchDailyTotals ==
    /\ pc = "fetch_totals"
    /\ queries' = queries + 1
    /\ \/ /\ pc' = "raised"
          /\ UNCHANGED <<fetched, accurate_totals>>
       \/ /\ accurate_totals' \in MainTotals
          /\ fetched' = fetched \cup {"totals"}
          /\ pc' = "fetch_costs"
    /\ UNCHANGED <<env_ok, today, rows, resources, summary, fs, run>>

\* rows = fetch_daily_costs(): the query fails or answers
FetchDailyCosts ==
    /\ pc = "fetch_costs"
    /\ queries' = queries + 1
    /\ \/ /\ pc' = "raised"
          /\ UNCHANGED <<fetched, rows>>
       \/ /\ rows' \in SeqsUpTo(MainRows, MaxMainRows)
          /\ fetched' = fetched \cup {"rows"}
          /\ pc' = "check"
    /\ UNCHANGED <<env_ok, today, accurate_totals, resources, summary, fs, run>>

\* if not rows: return 1
ReturnNoData ==
    /\ pc = "check"
    /\ NoData(rows)
    /\ pc' = "returned_1"
    /\ UNCHANGED <<env_ok, today, queries, fetched, accurate_totals, rows,
                   resources, summary, fs, run>>

\* summary = generate_structure(rows, accurate_totals); return 0
Generate ==
    /\ pc = "check"
    /\ ~NoData(rows)
    /\ LET out == generate_structure(rows, accurate_totals, today, fs)
       IN  /\ resources' = out.resources
           /\ summary' = out.summary
           /\ fs' = out.fs
    /\ pc' = "returned_0"
    /\ UNCHANGED <<env_ok, today, queries, fetched, accurate_totals, rows, run>>

Ended == pc \in {"raised", "returned_1", "returned_0"}

\* the next scheduled run: a new process, the same day or the next, on the
\* tree the last one left
Restart ==
    /\ Ended
    /\ run < MaxRuns
    /\ run' = run + 1
    /\ pc' = "start"
    /\ env_ok' \in BOOLEAN
    /\ today' \in {today, today + 1}
    /\ queries' = 0
    /\ fetched' = {}
    /\ accurate_totals' = EmptyDict
    /\ rows' = <<>>
    /\ resources' = <<>>
    /\ summary' = NoSummary
    /\ UNCHANGED fs

Next ==
    \/ ValidateConfig
    \/ FetchDailyTotals
    \/ FetchDailyCosts
    \/ ReturnNoData
    \/ Generate
    \/ Restart

Spec == Init /\ [][Next]_vars

----------------------------------------------------------------------------
(* Vocabulary of the properties *)

Finished == pc = "done"

\* the aggregate the reconciliation adds: it alone has no project
IsSynthetic(data) == data.key = Unallocated /\ data.project_id = None

RECURSIVE SumCost(_, _)
\* the sum of net_cost over the rows rs[i], i in I
SumCost(rs, I) ==
    IF I = {} THEN 0
    ELSE LET i == CHOOSE x \in I : TRUE
         IN  rs[i].net_cost + SumCost(rs, I \ {i})

\* the sum of the detailed row costs of a date
RowsOn(date) == SumCost(rows, {i \in DOMAIN rows : rows[i].usage_date = date})

\* the authoritative total of a date minus the detailed row costs of that date
Gap(date) == accurate_totals[date] - RowsOn(date)

GapDates == {date \in DOMAIN accurate_totals : Abs(Gap(date)) > Threshold}

RECURSIVE SumRealDaily(_, _, _)
\* the sum of daily_costs[date] over the aggregates folded from rows
SumRealDaily(res, date, n) ==
    IF n = 0 THEN 0
    ELSE (IF IsSynthetic(res[n]) THEN 0
          ELSE Get(res[n].daily_costs, date, 0))
             + SumRealDaily(res, date, n - 1)

HasSynthetic == \E i \in DOMAIN resources : IsSynthetic(resources[i])

SyntheticEntry == resources[CHOOSE i \in DOMAIN resources :
                                IsSynthetic(resources[i])]

UnallocatedOn(date) ==
    IF HasSynthetic THEN Get(SyntheticEntry.daily_costs, date, 0) ELSE 0

----------------------------------------------------------------------------
(* C1: after generate_structure, for every date of the authoritative       *)
(* totals, the daily costs of the aggregates folded from rows plus the     *)
(* `_unallocated_` aggregate's daily cost (0 when absent) are within 0.01  *)
(* of the authoritative total.                                             *)
(* The code breaks it when a row's key is `_unallocated_` and some date    *)
(* has a gap: the synthetic aggregate is stored over the folded one.       *)

Reconciliation ==
    Finished =>
        \A date \in DOMAIN accurate_totals :
            Abs(SumRealDaily(resources, date, Len(resources))
                  + UnallocatedOn(date) - accurate_totals[date]) <= Threshold

(* C2: the resource map has the key `_unallocated_` exactly when some date *)
(* has a gap of more than 0.01 between its authoritative total and its     *)
(* detailed row costs; the entry then holds the signed gap on each such    *)
(* date and nothing on the other dates.                                    *)
(* The code breaks it when a row's key is `_unallocated_` (the key exists  *)
(* without any gap), and the entry holds the gap rounded to cents.         *)

UnallocatedIffGap ==
    Finished =>
        /\ HasKey(resources, Unallocated) <=> GapDates # {}
        /\ HasKey(resources, Unallocated) =>
               LET entry == resources[IndexOf(resources, Unallocated)]
               IN  /\ DOMAIN entry.daily_costs = GapDates
                   /\ \A date \in GapDates :
                          entry.daily_costs[date] = Gap(date)

LatestDate == MaxOf(RowDates(rows) \cup DOMAIN accurate_totals)

RowsOfKey(key) == SumCost(rows, {i \in DOMAIN rows : KeyOf(rows[i]) = key})

(* C3: every aggregate folded from rows has total_cost equal to the sum of *)
(* net_cost over the rows of its key, and rolling_30d_cost equal to the    *)
(* sum of its daily_costs entries dated at or after the cutoff, the latest *)
(* date of the rows and the authoritative totals minus 30 days.            *)

FoldedSums ==
    Finished =>
        \A i \in DOMAIN resources :
            ~IsSynthetic(resources[i]) =>
                /\ resources[i].total_cost = RowsOfKey(resources[i].key)
                /\ resources[i].rolling_30d_cost =
                       SumSet(resources[i].daily_costs,
                              {date \in DOMAIN resources[i].daily_costs :
                                  date >= LatestDate - Window})

\* an aggregate with a day before the cutoff, which only a date of the
\* authoritative totals makes late enough, and undated rows besides
FoldedSumsWitness ==
    /\ Finished
    /\ RowDates(rows) = {OldDay}
    /\ LastDay \in DOMAIN accurate_totals
    /\ \E i \in DOMAIN resources :
           /\ ~IsSynthetic(resources[i])
           /\ resources[i].rolling_30d_cost = 0
           /\ resources[i].total_cost > SumSet(resources[i].daily_costs,
                                               DOMAIN resources[i].daily_costs)
           /\ OldDay \in DOMAIN resources[i].daily_costs

----------------------------------------------------------------------------

\* the aggregate a row was folded into
AggregateOf(row) == resources[IndexOf(resources, KeyOf(row))]

(* C7: aggregates are keyed by project plus resource name: rows with the   *)
(* same resource name and different project ids end in different           *)
(* aggregates, and every row folded into an aggregate has the aggregate's  *)
(* project_id.                                                             *)
(* The code keys a named resource by its sanitized name alone, so such     *)
(* rows are summed into the aggregate of the first of them.                *)

KeyedByProjectAndResource ==
    Finished =>
        \A n \in DOMAIN rows : \A m \in DOMAIN rows :
            ( /\ rows[n].resource_name = rows[m].resource_name
              /\ rows[n].project_id # None
              /\ rows[m].project_id # None
              /\ rows[n].project_id # rows[m].project_id )
            => /\ KeyOf(rows[n]) # KeyOf(rows[m])
               /\ AggregateOf(rows[n]).project_id = rows[n].project_id
               /\ AggregateOf(rows[m]).project_id = rows[m].project_id

RowProjects == {ProjectIdOf(rows[n]) : n \in DOMAIN rows}

(* C9: the summary's project_count is the number of distinct project ids   *)
(* of the rows (the synthetic aggregate adds nothing), resource_count the  *)
(* number of aggregates and category_count the number of distinct          *)
(* categories over the aggregates.                                         *)
(* The code counts the synthetic aggregate's missing project as a project  *)
(* of its own (sanitize_name turns None into `_unknown_`, so the guard     *)
(* `if project_id` never skips it).                                        *)

SummaryCounts ==
    Finished =>
        /\ summary.project_count = Cardinality(RowProjects)
        /\ summary.resource_count = Len(resources)
        /\ summary.category_count =
               Cardinality(UNION {resources[i].categories :
                                     i \in DOMAIN resources})

ToResource(k) == <<"..", "..", "by-resource", k>>

IndexedLinks(slots) ==
    {<<slot[1], slot[2], ToResource(slot[2])>> : slot \in slots}

LinksOf(links) == {<<path[1], path[2], links[path]>> : path \in DOMAIN links}

(* C8: after a run, every key k of the resource map has a cost document at *)
(* by-resource/k, a link by-project/<sanitized project id>/k and, for each *)
(* category c, a link by-service/<sanitized c>/k, all to                   *)
(* ../../by-resource/k; and the index trees hold nothing else, so no link  *)
(* dangles or names another resource.                                      *)

CrossReferences ==
    Finished =>
        /\ fs.exists
        /\ DOMAIN fs.by_resource = {resources[i].key : i \in DOMAIN resources}
        /\ LinksOf(fs.by_project) =
               IndexedLinks({<<sanitize_name(resources[i].project_id),
                               resources[i].key>> : i \in DOMAIN resources})
        /\ LinksOf(fs.by_service) =
               IndexedLinks(UNION {{<<sanitize_name(c), resources[i].key>> :
                                       c \in resources[i].categories} :
                                      i \in DOMAIN resources})
        /\ \A path \in DOMAIN fs.by_project :
               fs.by_project[path][4] \in DOMAIN fs.by_resource
        /\ \A path \in DOMAIN fs.by_service :
               fs.by_service[path][4] \in DOMAIN fs.by_resource

\* a resource of a project whose id is rewritten, with two categories that
\* share one service directory, next to the synthetic aggregate
CrossReferencesWitness ==
    /\ Finished
    /\ HasSynthetic
    /\ \E i \in DOMAIN resources :
           /\ resources[i].project_id = PSlash
           /\ Cardinality(resources[i].categories) = 2
           /\ Cardinality(ServiceDirs(resources[i])) = 1

----------------------------------------------------------------------------

UnknownRow(row) == ResourceNameOf(row) = Unknown

(* C10: rows whose resource is absent or `_unknown_` and whose project ids *)
(* differ get different keys, and no such row shares its key with a row    *)
(* that names its resource, so an unknown-resource aggregate holds the     *)
(* rows of one project only.                                               *)

Underscored(name) ==
    [i \in DOMAIN name |-> IF name[i] \in {"/", "\\", ":", " "} THEN "_"
                           ELSE name[i]]

SafeProject(row) ==
    Underscored(IF row.project_id = None THEN UnknownProject
                ELSE row.project_id)

SameUnknownKey(row, other) ==
    IF UnknownRow(other) THEN SafeProject(other) = SafeProject(row)
    ELSE Underscored(other.resource_name)
             = SafeProject(row) \o <<"_", "_", "u", "n", "k", "n", "o", "w",
                                     "n", "_">>

(* C10 as amended: two unknown-resource rows share a key exactly when      *)
(* their project ids (an absent one read as `_unknown_project_`) are equal *)
(* once sanitized; an unknown-resource row shares its key with a row that  *)
(* names its resource only when that name sanitizes to                     *)
(* <sanitized project id>__unknown_; the aggregate holds those rows only.  *)

----------------------------------------------------------------------------

TopList == summary.top_20_resources

(* C6: the summary's top_20_resources has min(20, resource_count) entries  *)
(* and each entry's rolling_30d_cost is greater than that of the next.     *)

TopStrictlyDescending ==
    Finished =>
        /\ Len(TopList) = Min(20, summary.resource_count)
        /\ \A i \in 1..(Len(TopList) - 1) :
               TopList[i].rolling_30d_cost > TopList[i + 1].rolling_30d_cost

(* C6 as amended: the summary's top_20_resources has                      *)
(* min(20, resource_count) entries and each entry's rolling_30d_cost is    *)
(* greater than or equal to that of the next.                              *)

TopDescending ==
    Finished =>
        /\ Len(TopList) = Min(20, summary.resource_count)
        /\ \A i \in 1..(Len(TopList) - 1) :
               TopList[i].rolling_30d_cost >= TopList[i + 1].rolling_30d_cost

\* more than 20 resources, cut to 20, some of equal and some of different
\* rolling cost
TopDescendingWitness ==
    /\ Finished
    /\ summary.resource_count > 20
    /\ Len(TopList) = 20
    /\ \E i \in 1..19 :
           TopList[i].rolling_30d_cost = TopList[i + 1].rolling_30d_cost
    /\ \E i \in 1..19 :
           TopList[i].rolling_30d_cost > TopList[i + 1].rolling_30d_cost

----------------------------------------------------------------------------
(* C4: main leaves the output tree as it is unless the configuration is    *)
(* valid, both fetches have returned and the detail rows are not empty: a  *)
(* missing setting raises before any query, a failing fetch raises before  *)
(* the tree is touched, and with no rows main returns 1 without calling    *)
(* generate_structure.                                                     *)

FetchBeforeDestroy ==
    [][ /\ fs' # fs =>
            /\ env_ok
            /\ fetched = {"totals", "rows"}
            /\ rows # <<>>
            /\ pc' = "returned_0"
        /\ ~env_ok' => queries' = 0
        /\ pc' = "raised" => fs' = fs
        /\ (pc = "check" /\ rows = <<>>) =>
               (pc' = "returned_1" /\ fs' = fs /\ summary' = NoSummary)
      ]_vars

\* a later run whose second query failed, on the tree of an earlier run
FetchBeforeDestroyWitness ==
    /\ pc = "raised"
    /\ queries = 2
    /\ fetched = {"totals"}
    /\ fs.exists

----------------------------------------------------------------------------

\* a tree without its generation dates
Undated(tree) ==
    [tree EXCEPT
        !.by_resource = [k \in DOMAIN @ |-> [@[k] EXCEPT !.last_updated = 0]],
        !.summary_doc = [i \in DOMAIN @ |-> [@[i] EXCEPT !.date = 0]]]

\* the tree a first run writes on day Today0
FirstRunTree == generate_structure(rows, accurate_totals, Today0, NoTree).fs

(* C5: after any sequence of successful runs the output tree (directories, *)
(* links and their targets, every JSON field but the generation date) is a *)
(* function of the last run's rows and authoritative totals: it is the     *)
(* tree a first run on that input writes, whatever day it is.              *)

TreeOfLastInput ==
    pc = "returned_0" => Undated(fs) = Undated(FirstRunTree)

NoDates == RowDates(rows) \cup DOMAIN accurate_totals = {}

\* a tree without its generation dates and without its defaulted date range
Undefaulted(tree) ==
    IF ~NoDates THEN Undated(tree)
    ELSE [Undated(tree) EXCEPT
             !.by_resource =
                 [k \in DOMAIN @ |-> [@[k] EXCEPT !.data_range = 0]],
             !.summary_doc =
                 [i \in DOMAIN @ |->
                     [@[i] EXCEPT !.data_range = 0, !.rolling_30d_cutoff = 0]]]

(* C5 as amended: after any sequence of successful runs the output tree   *)
(* is a function of the last run's rows and authoritative totals in its    *)
(* directories, links, link targets and every JSON field but the           *)
(* generation date and, when neither the rows nor the totals carry a date, *)
(* the data range and the rolling cutoff, which are then the current date  *)
(* and 30 days before it.                                                  *)

TreeOfLastInputButDefaults ==
    pc = "returned_0" => Undefaulted(fs) = Undefaulted(FirstRunTree)

\* a successful run on a later day, on the tree an earlier run left
TreeOfLastInputWitness ==
    /\ pc = "returned_0"
    /\ run > 1
    /\ today > Today0
    /\ fs.exists
    /\ Len(resources) = 1

====
